---- MODULE Spec2Model ----
(***************************************************************************)
(* Functors of the vvp runtime (src/vvp/logic.cc): the table functor, the  *)
(* scheduled AND gate, BUF/BUFZ, the MUXR and MUXZ multiplexers, and the   *)
(* construction entry point compile_functor.                               *)
(*                                                                         *)
(* Every functor is driven by an environment that delivers receives on its *)
(* input ports; the fan-out of the functor's net is an observer that       *)
(* records what vvp_send_vec4 / vvp_send_real delivers.                    *)
(***************************************************************************)
EXTENDS Integers, Sequences, FiniteSets, TLC

\* ------------------------------------------------------------------ bounds
\* Widths of the vectors the environment delivers to the four-port gates.
Widths == {0, 1, 2}
\* Receives delivered to one functor in a run.
MaxRecv == 2
\* Logical time runs over 0..MaxTime.
MaxTime == 1

\* ------------------------------------------------------- 4-state vectors
\* vvp_bit4_t
Bit4 == {"0", "1", "X", "Z"}

\* Vectors are sequences of bits; bit idx of the code is element idx+1.
VecsOfLen(n) == [1..n -> Bit4]

Vecs == UNION {VecsOfLen(n) : n \in Widths}

\* vvp_vector4_t(wid): a vector of wid X bits.
AllX(wid) == [i \in 1..wid |-> "X"]

\* vvp_vector4_t::value(idx): the bit at idx, X outside the vector.
Value(v, idx) == IF idx < Len(v) THEN v[idx + 1] ELSE "X"

\* vvp_vector4_t::eeq: same size and same bits.
Eeq(a, b) == Len(a) = Len(b) /\ \A i \in 1..Len(a) : a[i] = b[i]

\* operator & on vvp_bit4_t.
Bit4And(a, b) ==
    IF a = "0" \/ b = "0" THEN "0"
    ELSE IF a = "1" /\ b = "1" THEN "1"
    ELSE "X"

\* The operand of an operation that carries no value.
NoVal == "none"

\* What the fan-out holds: nothing before the first send, then the last
\* value sent to it.
Nothing == << >>
Delivered(v) == <<v>>

\* A functor's input ports.
Ports == 0..3

VARIABLES
    input_,     \* vvp_fun_boolean_::input_ / table_functor_s::input_
    queue,      \* the scheduler's queue of generic events, oldest first
    now,        \* the scheduler's logical time
    fb,         \* the port of the gate its own output edge feeds: << >> or <<p>>
    table,      \* table_functor_s::table
    lookups,    \* the lookup index of every bit of the last table receive
    a_,         \* vvp_fun_muxz::a_ / vvp_fun_muxr::a_
    b_,         \* vvp_fun_muxz::b_ / vvp_fun_muxr::b_
    select_,    \* vvp_fun_muxz::select_ / vvp_fun_muxr::select_
    nets,       \* the vvp_net_t objects allocated, in allocation order
    nobj,       \* the functor objects allocated
    symtab,     \* the functor symbols: label -> index in nets, 0 if undefined
    errors,     \* the errors reported through yyerror
    labels,     \* the labels of the statements the loader has yet to compile
    last,       \* the arguments of the last compile_functor call
    aborted,    \* an assertion failed: the process is gone
    out,        \* the last value the fan-out received
    sent,       \* how many sends the last operation made
    op,         \* the last operation
    nrecv,      \* receives delivered so far
    kind        \* the functor attached to the net the receives address

gateVars == <<input_, queue, now, fb>>
tableVars == <<table, lookups>>
muxVars == <<a_, b_, select_>>
obsVars == <<out, sent, op, nrecv>>
compVars == <<nets, nobj, symtab, errors, labels, last>>

vars == <<input_, queue, now, fb, table, lookups, a_, b_, select_, nets, nobj,
          symtab, errors, labels, last, aborted, out, sent, op, nrecv, kind>>

\* The state of the functors a specification does not exercise.
NoTable == table = "none" /\ lookups = << >>
NoMux == a_ = 0 /\ b_ = 0 /\ select_ = 2
NoGate == input_ = << >> /\ queue = << >> /\ now = 0 /\ fb = << >>
NoCompile ==
    /\ nets = << >>
    /\ nobj = 0
    /\ symtab = << >>
    /\ errors = 0
    /\ labels = {}
    /\ last = << >>
Fresh ==
    /\ aborted = FALSE
    /\ out = Nothing
    /\ sent = 0
    /\ op = [name |-> "new", port |-> 0, val |-> NoVal]
    /\ nrecv = 0

\* ------------------------------------------------------------ AND gate
\* vvp_fun_boolean_::vvp_fun_boolean_(wid)
BooleanInit(wid) == [p \in Ports |-> AllX(wid)]

\* An inner loop that stops one port early (pdx < 3).
RECURSIVE AndFoldShort(_, _, _, _)
AndFoldShort(inp, idx, pdx, bitbit) ==
    IF pdx >= 3 THEN bitbit
    ELSE IF Len(inp[pdx]) < idx THEN "X"
    ELSE AndFoldShort(inp, idx, pdx + 1, Bit4And(bitbit, Value(inp[pdx], idx)))

\* The inner loop of vvp_fun_and::run_run over pdx = 1..3 for bit idx.
RECURSIVE AndFold(_, _, _, _)
AndFold(inp, idx, pdx, bitbit) ==
    IF pdx >= 4 THEN bitbit
    ELSE IF Len(inp[pdx]) < idx THEN "X"
    ELSE AndFold(inp, idx, pdx + 1, Bit4And(bitbit, Value(inp[pdx], idx)))

\* The vector vvp_fun_and::run_run sends.
AndResult(inp) ==
    [i \in 1..Len(inp[0]) |-> AndFold(inp, i - 1, 1, inp[0][i])]

\* schedule_generic(this, 0, false): an event due at the present time.
Schedule(q, t) == Append(q, [fun |-> "and", time |-> t])

\* A receive that resolves and forwards inside the call, as the table
\* functor does, instead of going through the scheduler.
AndRecvSync(port, bit) ==
    /\ ~aborted
    /\ nrecv' = nrecv + 1
    /\ op' = [name |-> "recv", port |-> port, val |-> bit]
    /\ IF Eeq(input_[port], bit)
       THEN sent' = 0 /\ UNCHANGED <<input_, out>>
       ELSE /\ input_' = [input_ EXCEPT ![port] = bit]
            /\ out' = Delivered(AndResult(input_'))
            /\ sent' = 1
    /\ UNCHANGED <<queue, now, fb, tableVars, muxVars, aborted, compVars, kind>>

\* A receive that latches and schedules without comparing the vector with
\* the one it holds.
AndRecvNoEeq(port, bit) ==
    /\ ~aborted
    /\ nrecv' = nrecv + 1
    /\ op' = [name |-> "recv", port |-> port, val |-> bit]
    /\ sent' = 0
    /\ out' = out
    /\ input_' = [input_ EXCEPT ![port] = bit]
    /\ queue' = Schedule(queue, now)
    /\ UNCHANGED <<now, fb, tableVars, muxVars, aborted, compVars, kind>>

\* vvp_fun_boolean_::recv_vec4
AndRecv(port, bit) ==
    /\ ~aborted
    /\ nrecv' = nrecv + 1
    /\ op' = [name |-> "recv", port |-> port, val |-> bit]
    /\ sent' = 0
    /\ out' = out
    /\ IF Eeq(input_[port], bit)
       THEN UNCHANGED <<input_, queue>>
       ELSE /\ input_' = [input_ EXCEPT ![port] = bit]
            /\ queue' = Schedule(queue, now)
    /\ UNCHANGED <<now, fb, tableVars, muxVars, aborted, compVars, kind>>

\* A firing that evaluates the latches only the first time and sends the
\* vector it sent before from then on.
AndRunCached ==
    /\ ~aborted
    /\ queue # << >>
    /\ Head(queue).time = now
    /\ LET result == IF out = Nothing THEN AndResult(input_) ELSE out[1]
           rest == Tail(queue)
       IN /\ out' = Delivered(result)
          /\ sent' = 1
          /\ op' = [name |-> "run", port |-> 0, val |-> result]
          /\ IF fb = << >> \/ Eeq(input_[fb[1]], result)
             THEN /\ input_' = input_
                  /\ queue' = rest
             ELSE /\ input_' = [input_ EXCEPT ![fb[1]] = result]
                  /\ queue' = Schedule(rest, now)
    /\ UNCHANGED <<now, fb, nrecv, tableVars, muxVars, aborted, compVars, kind>>

\* A firing whose delivery to the gate's own port latches and schedules
\* without comparing the vector with the one the port holds.
AndRunNoEeq ==
    /\ ~aborted
    /\ queue # << >>
    /\ Head(queue).time = now
    /\ LET result == AndResult(input_)
           rest == Tail(queue)
       IN /\ out' = Delivered(result)
          /\ sent' = 1
          /\ op' = [name |-> "run", port |-> 0, val |-> result]
          /\ IF fb = << >>
             THEN /\ input_' = input_
                  /\ queue' = rest
             ELSE /\ input_' = [input_ EXCEPT ![fb[1]] = result]
                  /\ queue' = Schedule(rest, now)
    /\ UNCHANGED <<now, fb, nrecv, tableVars, muxVars, aborted, compVars, kind>>

\* vvp_fun_and::run_run, fired by the scheduler for the oldest due event.
\* vvp_send_vec4 delivers the result to the fan-out; when the output edge
\* feeds a port of the gate itself, that delivery is a recv_vec4 on it.
AndRun ==
    /\ ~aborted
    /\ queue # << >>
    /\ Head(queue).time = now
    /\ LET result == AndResult(input_)
           rest == Tail(queue)
       IN /\ out' = Delivered(result)
          /\ sent' = 1
          /\ op' = [name |-> "run", port |-> 0, val |-> result]
          /\ IF fb = << >> \/ Eeq(input_[fb[1]], result)
             THEN /\ input_' = input_
                  /\ queue' = rest
             ELSE /\ input_' = [input_ EXCEPT ![fb[1]] = result]
                  /\ queue' = Schedule(rest, now)
    /\ UNCHANGED <<now, fb, nrecv, tableVars, muxVars, aborted, compVars, kind>>

\* The scheduler advances time only when nothing is due at the present time.
AdvanceTime ==
    /\ ~aborted
    /\ queue = << >>
    /\ now < MaxTime
    /\ now' = now + 1
    /\ op' = [name |-> "tick", port |-> 0, val |-> NoVal]
    /\ sent' = 0
    /\ UNCHANGED <<input_, queue, fb, out, nrecv, tableVars, muxVars, aborted,
                   compVars, kind>>

AndInit ==
    /\ input_ = BooleanInit(1)
    /\ queue = << >>
    /\ now = 0
    /\ fb = << >>
    /\ NoTable
    /\ NoMux
    /\ NoCompile
    /\ Fresh
    /\ kind = "and"

AndNext ==
    \/ \E port \in Ports, bit \in Vecs : nrecv < MaxRecv /\ AndRecv(port, bit)
    \/ AndRun
    \/ AdvanceTime

SpecAnd == AndInit /\ [][AndNext]_vars

\* An AND gate driven on all of its ports: the environment delivers enough
\* receives to reach each of the four, with vectors of ones and a zero.
FourVecs == {<<"1">>, <<"1", "1">>, <<"0">>}

AndFourNext ==
    \/ \E port \in Ports, bit \in FourVecs :
          nrecv < MaxRecv + 2 /\ AndRecv(port, bit)
    \/ AndRun
    \/ AdvanceTime

SpecAndFour == AndInit /\ [][AndFourNext]_vars

\* An AND gate whose output edge is wired back to one of its ports 1..3:
\* that port is driven by the gate alone, the others by the environment.
\* The scheduler keeps firing what is due and moves time on when nothing is.
AndFbInit ==
    /\ input_ = BooleanInit(1)
    /\ queue = << >>
    /\ now = 0
    /\ fb \in {<<p>> : p \in 1..3}
    /\ NoTable
    /\ NoMux
    /\ NoCompile
    /\ Fresh
    /\ kind = "and"

\* The vectors the environment drives into the gate with feedback: every
\* one-bit vector, the empty one and a two-bit one.
FbVecs == VecsOfLen(1) \cup {<< >>, <<"1", "0">>}

AndFbNext ==
    \/ \E port \in Ports \ {fb[1]}, bit \in FbVecs :
          nrecv < MaxRecv /\ AndRecv(port, bit)
    \/ AndRun
    \/ AdvanceTime

SpecAndFb ==
    AndFbInit /\ [][AndFbNext]_vars /\ WF_vars(AndRun) /\ WF_vars(AdvanceTime)

\* ------------------------------------------------------- table functor
\* The 2-bit code of a bit: the encoding of vvp_bit4_t the tables share.
Code(b) == CASE b = "0" -> 0 [] b = "1" -> 1 [] b = "X" -> 2 [] b = "Z" -> 3

\* (vvp_bit4_t)bit_val
Decode(c) == CHOOSE b \in Bit4 : Code(b) = c

\* The loop over pdx = 4..1 of table_functor_s::recv_vec4 for bit idx.
RECURSIVE LookupFold(_, _, _, _)
LookupFold(inp, idx, pdx, lookup) ==
    IF pdx = 0 THEN lookup
    ELSE LET shifted == lookup * 4
             packed == IF idx < Len(inp[pdx - 1])
                       THEN shifted + Code(Value(inp[pdx - 1], idx))
                       ELSE shifted
         IN LookupFold(inp, idx, pdx - 1, packed)

Lookup(inp, idx) == LookupFold(inp, idx, 4, 0)

\* The four input bits an index stands for, port 0 in the low two bits.
InputsOf(lookup) == [q \in Ports |-> Decode((lookup \div (4 ^ q)) % 4)]

\* The gates the generated tables ft_OR and ft_NAND tabulate.
GateOr(ins) ==
    IF \E q \in Ports : ins[q] = "1" THEN "1"
    ELSE IF \A q \in Ports : ins[q] = "0" THEN "0"
    ELSE "X"

GateNand(ins) ==
    IF \E q \in Ports : ins[q] = "0" THEN "1"
    ELSE IF \A q \in Ports : ins[q] = "1" THEN "0"
    ELSE "X"

TruthEntry(t, lookup) ==
    Code(IF t = "OR" THEN GateOr(InputsOf(lookup)) ELSE GateNand(InputsOf(lookup)))

\* table[off]: one byte holds the entries 4*off .. 4*off+3, two bits each.
TableByte(t, off) ==
    TruthEntry(t, 4 * off) + 4 * TruthEntry(t, 4 * off + 1)
      + 16 * TruthEntry(t, 4 * off + 2) + 64 * TruthEntry(t, 4 * off + 3)

\* bit_val of table_functor_s::recv_vec4 for one lookup index.
BitVal(t, lookup) ==
    LET off == lookup \div 4
        shift == (lookup % 4) * 2
    IN (TableByte(t, off) \div (2 ^ shift)) % 4

\* The tables the model instantiates the functor with.
Tables == {"OR", "NAND"}

\* A receive that sizes its result by the widest latched input instead of
\* the vector it just received.
TabRecvWidest(port, val) ==
    /\ ~aborted
    /\ nrecv < MaxRecv
    /\ nrecv' = nrecv + 1
    /\ op' = [name |-> "tab.recv_vec4", port |-> port, val |-> val]
    /\ input_' = [input_ EXCEPT ![port] = val]
    /\ LET wid == CHOOSE n \in {Len(input_'[q]) : q \in Ports} :
                      \A q \in Ports : Len(input_'[q]) <= n
       IN /\ lookups' = [i \in 1..wid |-> Lookup(input_', i - 1)]
          /\ out' = Delivered([i \in 1..wid |-> Decode(BitVal(table, lookups'[i]))])
    /\ sent' = 1
    /\ UNCHANGED <<queue, now, fb, table, muxVars, aborted, compVars, kind>>

\* table_functor_s::recv_vec4
TabRecv(port, val) ==
    /\ ~aborted
    /\ nrecv < MaxRecv
    /\ nrecv' = nrecv + 1
    /\ op' = [name |-> "tab.recv_vec4", port |-> port, val |-> val]
    /\ input_' = [input_ EXCEPT ![port] = val]
    /\ lookups' = [i \in 1..Len(val) |-> Lookup(input_', i - 1)]
    /\ out' = Delivered([i \in 1..Len(val) |-> Decode(BitVal(table, lookups'[i]))])
    /\ sent' = 1
    /\ UNCHANGED <<queue, now, fb, table, muxVars, aborted, compVars, kind>>

TabInit ==
    /\ input_ = [p \in Ports |-> << >>]
    /\ queue = << >>
    /\ now = 0
    /\ fb = << >>
    /\ table \in Tables
    /\ lookups = << >>
    /\ NoMux
    /\ NoCompile
    /\ Fresh
    /\ kind = "table"

TabNext == \E port \in Ports, val \in Vecs : TabRecv(port, val)

SpecTab == TabInit /\ [][TabNext]_vars

\* -------------------------------------------------------- BUF and BUFZ
\* Real values on the real channel.
RealVals == {0, 1, 2}

\* vvp_vector4_t::change_z2x
Z2X(v) == [i \in 1..Len(v) |-> IF v[i] = "Z" THEN "X" ELSE v[i]]

\* A BUF that forwards the vector without collapsing its floating bits.
BufRecvKeepZ(port, bit) ==
    /\ ~aborted
    /\ op' = [name |-> "buf.recv_vec4", port |-> port, val |-> bit]
    /\ IF port # 0
       THEN sent' = 0 /\ out' = out
       ELSE sent' = 1 /\ out' = Delivered(bit)
    /\ UNCHANGED <<gateVars, tableVars, muxVars, aborted, nrecv, compVars, kind>>

\* vvp_fun_buf::recv_vec4
BufRecvVec4(port, bit) ==
    /\ ~aborted
    /\ op' = [name |-> "buf.recv_vec4", port |-> port, val |-> bit]
    /\ IF port # 0
       THEN sent' = 0 /\ out' = out
       ELSE sent' = 1 /\ out' = Delivered(Z2X(bit))
    /\ UNCHANGED <<gateVars, tableVars, muxVars, aborted, nrecv, compVars, kind>>

\* vvp_fun_bufz::recv_vec4
BufzRecvVec4(port, bit) ==
    /\ ~aborted
    /\ op' = [name |-> "bufz.recv_vec4", port |-> port, val |-> bit]
    /\ IF port # 0
       THEN sent' = 0 /\ out' = out
       ELSE sent' = 1 /\ out' = Delivered(bit)
    /\ UNCHANGED <<gateVars, tableVars, muxVars, aborted, nrecv, compVars, kind>>

\* vvp_fun_bufz::recv_real
BufzRecvReal(port, bit) ==
    /\ ~aborted
    /\ op' = [name |-> "bufz.recv_real", port |-> port, val |-> bit]
    /\ IF port # 0
       THEN sent' = 0 /\ out' = out
       ELSE sent' = 1 /\ out' = Delivered(bit)
    /\ UNCHANGED <<gateVars, tableVars, muxVars, aborted, nrecv, compVars, kind>>

BufInit == NoGate /\ NoTable /\ NoMux /\ NoCompile /\ Fresh /\ kind = "buf"

BufNext ==
    \/ \E port \in Ports, bit \in Vecs : BufRecvVec4(port, bit)
    \/ \E port \in Ports, bit \in Vecs : BufzRecvVec4(port, bit)
    \/ \E port \in Ports, bit \in RealVals : BufzRecvReal(port, bit)

SpecBuf == BufInit /\ [][BufNext]_vars

\* ------------------------------------------------------------- MUXZ
\* The vectors delivered to the multiplexer: the small vectors and the
\* operands of the documented three-bit scenario.
MuxVecs == Vecs \cup {<<"1", "0", "1">>, <<"1", "1", "1">>}

\* The switch on bit.value(0) of a select receive.
SelectOf(b) == IF b = "0" THEN 0 ELSE IF b = "1" THEN 1 ELSE 2

Min(x, y) == IF x < y THEN x ELSE y
Max(x, y) == IF x > y THEN x ELSE y

\* A reconciliation that stops at the shorter operand instead of padding.
MuxzResultUnpadded(sel, a, b) ==
    IF sel = 0 THEN a
    ELSE IF sel = 1 THEN b
    ELSE [i \in 1..Min(Len(a), Len(b)) |->
             IF Value(a, i - 1) = Value(b, i - 1) THEN Value(a, i - 1) ELSE "X"]

\* The vector vvp_fun_muxz::recv_vec4 sends for (select_, a_, b_).
MuxzResult(sel, a, b) ==
    IF sel = 0 THEN a
    ELSE IF sel = 1 THEN b
    ELSE LET min_size == Min(Len(a), Len(b))
             max_size == Max(Len(a), Len(b))
         IN [i \in 1..max_size |->
                IF i <= min_size /\ Value(a, i - 1) = Value(b, i - 1)
                THEN Value(a, i - 1)
                ELSE "X"]

\* A select receive that does not assert the width of the vector and goes
\* on with bit 0 of whatever it got.
MuxzRecvNoAssert(port, bit) ==
    /\ ~aborted
    /\ op' = [name |-> "muxz.recv_vec4", port |-> port, val |-> bit]
    /\ IF port = 3
       THEN /\ sent' = 0
            /\ UNCHANGED <<a_, b_, select_, aborted, out>>
       ELSE /\ a_' = IF port = 0 THEN bit ELSE a_
            /\ b_' = IF port = 1 THEN bit ELSE b_
            /\ select_' = IF port = 2 THEN SelectOf(Value(bit, 0)) ELSE select_
            /\ out' = Delivered(MuxzResult(select_', a_', b_'))
            /\ sent' = 1
            /\ aborted' = aborted
    /\ UNCHANGED <<gateVars, tableVars, nrecv, compVars, kind>>

\* A switch whose case 0 lacks its break and falls through into case 1.
MuxzRecvFallThrough(port, bit) ==
    /\ ~aborted
    /\ op' = [name |-> "muxz.recv_vec4", port |-> port, val |-> bit]
    /\ IF port = 3
       THEN /\ sent' = 0
            /\ UNCHANGED <<a_, b_, select_, aborted, out>>
       ELSE IF port = 2 /\ Len(bit) # 1
       THEN /\ aborted' = TRUE
            /\ sent' = 0
            /\ UNCHANGED <<a_, b_, select_, out>>
       ELSE /\ a_' = IF port = 0 THEN bit ELSE a_
            /\ b_' = IF port \in {0, 1} THEN bit ELSE b_
            /\ select_' = IF port = 2 THEN SelectOf(Value(bit, 0)) ELSE select_
            /\ out' = Delivered(MuxzResult(select_', a_', b_'))
            /\ sent' = 1
            /\ aborted' = aborted
    /\ UNCHANGED <<gateVars, tableVars, nrecv, compVars, kind>>

\* vvp_fun_muxz::recv_vec4
MuxzRecv(port, bit) ==
    /\ ~aborted
    /\ op' = [name |-> "muxz.recv_vec4", port |-> port, val |-> bit]
    /\ IF port = 3
       THEN /\ sent' = 0
            /\ UNCHANGED <<a_, b_, select_, aborted, out>>
       ELSE IF port = 2 /\ Len(bit) # 1
       THEN /\ aborted' = TRUE
            /\ sent' = 0
            /\ UNCHANGED <<a_, b_, select_, out>>
       ELSE /\ a_' = IF port = 0 THEN bit ELSE a_
            /\ b_' = IF port = 1 THEN bit ELSE b_
            /\ select_' = IF port = 2 THEN SelectOf(Value(bit, 0)) ELSE select_
            /\ out' = Delivered(MuxzResult(select_', a_', b_'))
            /\ sent' = 1
            /\ aborted' = aborted
    /\ UNCHANGED <<gateVars, tableVars, nrecv, compVars, kind>>

\* vvp_fun_muxz::vvp_fun_muxz(wid)
MuxzInit ==
    /\ \E wid \in Widths : a_ = AllX(wid) /\ b_ = AllX(wid)
    /\ select_ = 2
    /\ NoGate
    /\ NoTable
    /\ NoCompile
    /\ Fresh
    /\ kind = "muxz"

MuxzNext == \E port \in Ports, bit \in MuxVecs : MuxzRecv(port, bit)

SpecMuxz == MuxzInit /\ [][MuxzNext]_vars

\* ------------------------------------------------------------- MUXR
\* A select switch that takes the unknown branch without comparing A and B.
MuxrSelectedNoCompare(sel, a, b) ==
    IF sel = 0 THEN a ELSE IF sel = 1 THEN b ELSE 0

\* The real the switch on select_ of vvp_fun_muxr::recv_vec4 sends.
MuxrSelected(sel, a, b) ==
    IF sel = 0 THEN a
    ELSE IF sel = 1 THEN b
    ELSE IF a = b THEN a ELSE 0

\* vvp_fun_muxr::recv_vec4
MuxrRecvVec4(port, bit) ==
    /\ ~aborted
    /\ op' = [name |-> "muxr.recv_vec4", port |-> port, val |-> bit]
    /\ IF port # 2
       THEN /\ sent' = 0
            /\ UNCHANGED <<select_, aborted, out>>
       ELSE IF Len(bit) # 1
       THEN /\ aborted' = TRUE
            /\ sent' = 0
            /\ UNCHANGED <<select_, out>>
       ELSE /\ select_' = SelectOf(Value(bit, 0))
            /\ out' = Delivered(MuxrSelected(select_', a_, b_))
            /\ sent' = 1
            /\ aborted' = aborted
    /\ UNCHANGED <<a_, b_, gateVars, tableVars, nrecv, compVars, kind>>

\* vvp_fun_muxr::recv_real
MuxrRecvReal(port, bit) ==
    /\ ~aborted
    /\ op' = [name |-> "muxr.recv_real", port |-> port, val |-> bit]
    /\ IF port = 0
       THEN IF a_ = bit
            THEN sent' = 0 /\ UNCHANGED <<a_, b_, out, aborted>>
            ELSE /\ a_' = bit
                 /\ IF select_ = 0
                    THEN sent' = 1 /\ out' = Delivered(a_')
                    ELSE sent' = 0 /\ out' = out
                 /\ UNCHANGED <<b_, aborted>>
       ELSE IF port = 1
       THEN IF b_ = bit
            THEN sent' = 0 /\ UNCHANGED <<a_, b_, out, aborted>>
            ELSE /\ b_' = bit
                 /\ IF select_ = 1
                    THEN sent' = 1 /\ out' = Delivered(b_')
                    ELSE sent' = 0 /\ out' = out
                 /\ UNCHANGED <<a_, aborted>>
       ELSE /\ aborted' = TRUE
            /\ sent' = 0
            /\ UNCHANGED <<a_, b_, out>>
    /\ UNCHANGED <<select_, gateVars, tableVars, nrecv, compVars, kind>>

\* vvp_fun_muxr::vvp_fun_muxr()
MuxrInit ==
    /\ a_ = 0
    /\ b_ = 0
    /\ select_ = 2
    /\ NoGate
    /\ NoTable
    /\ NoCompile
    /\ Fresh
    /\ kind = "muxr"

MuxrNext ==
    \/ \E port \in Ports, bit \in Vecs : MuxrRecvVec4(port, bit)
    \/ \E port \in Ports, bit \in RealVals : MuxrRecvReal(port, bit)

SpecMuxr == MuxrInit /\ [][MuxrNext]_vars

\* ------------------------------------------------------ compile_functor
\* The type strings compile_functor accepts.
Tags ==
    {"OR", "AND", "BUF", "BUFIF0", "BUFIF1", "NOTIF0", "NOTIF1", "BUFZ",
     "MUXR", "MUXX", "MUXZ", "NMOS", "PMOS", "RNMOS", "RPMOS", "EEQ", "NAND",
     "NOR", "NOT", "XNOR", "XOR"}

\* A type string outside the set (strcmp is case sensitive).
UnknownTags == {"and"}

\* The labels of the statements the loader compiles, each once.
Labels == {"a", "b"}

\* Drive strengths the loader passes: the default and a weaker one.
Strengths == {5, 6}

\* The delay argument: 0 is the null pointer.
Delays == {0, 1}

\* The argument lists the loader passes: none, two, and more than four.
ArgLists == {<< >>, <<"a", "b">>, <<"b", "a", "a", "b", "a">>}

\* A functor object: its class and its constructor arguments.
Fun(class, tab, wid, pol, inv, str0, str1) ==
    [class |-> class, tab |-> tab, wid |-> wid, pol |-> pol, inv |-> inv,
     str0 |-> str0, str1 |-> str1]

TableFun(tab) == Fun("table_functor_s", tab, 0, FALSE, FALSE, 0, 0)

\* obj = 0
NullFun == Fun("null", "", 0, FALSE, FALSE, 0, 0)

\* A chain whose last branch does not return.
KnownTypeAny(type) == TRUE

\* The chain of strcmp tests: whether a branch other than the last matches.
KnownType(type) == type \in Tags

\* The functor the matching branch allocates.
FunctorOf(type, width, ostr0, ostr1) ==
    CASE type = "OR" -> TableFun("ft_OR")
      [] type = "AND" -> Fun("vvp_fun_and", "", width, FALSE, FALSE, 0, 0)
      [] type = "BUF" -> Fun("vvp_fun_buf", "", 0, FALSE, FALSE, 0, 0)
      [] type = "BUFIF0" -> Fun("vvp_fun_bufif", "", 0, TRUE, FALSE, ostr0, ostr1)
      [] type = "BUFIF1" -> Fun("vvp_fun_bufif", "", 0, FALSE, FALSE, ostr0, ostr1)
      [] type = "NOTIF0" -> Fun("vvp_fun_bufif", "", 0, TRUE, TRUE, ostr0, ostr1)
      [] type = "NOTIF1" -> Fun("vvp_fun_bufif", "", 0, FALSE, TRUE, ostr0, ostr1)
      [] type = "BUFZ" -> Fun("vvp_fun_bufz", "", 0, FALSE, FALSE, 0, 0)
      [] type = "MUXR" -> Fun("vvp_fun_muxr", "", 0, FALSE, FALSE, 0, 0)
      [] type = "MUXX" -> TableFun("ft_MUXX")
      [] type = "MUXZ" -> Fun("vvp_fun_muxz", "", width, FALSE, FALSE, 0, 0)
      [] type = "NMOS" -> Fun("vvp_fun_pmos", "", 0, TRUE, FALSE, 0, 0)
      [] type = "PMOS" -> Fun("vvp_fun_pmos", "", 0, FALSE, FALSE, 0, 0)
      [] type = "RNMOS" -> Fun("vvp_fun_rpmos", "", 0, TRUE, FALSE, 0, 0)
      [] type = "RPMOS" -> Fun("vvp_fun_rpmos", "", 0, FALSE, FALSE, 0, 0)
      [] type = "EEQ" -> TableFun("ft_EEQ")
      [] type = "NAND" -> TableFun("ft_NAND")
      [] type = "NOR" -> TableFun("ft_NOR")
      [] type = "NOT" -> TableFun("ft_NOT")
      [] type = "XNOR" -> TableFun("ft_XNOR")
      [] type = "XOR" -> TableFun("ft_XOR")
      [] OTHER -> NullFun

\* strength_aware
StrengthAware(type) == type \in {"BUFIF0", "BUFIF1", "NOTIF0", "NOTIF1"}

\* The test that publishes the gate's own net.
OwnNet(type, delay, ostr0, ostr1) ==
    StrengthAware(type) \/ (ostr0 = 6 /\ ostr1 = 6 /\ delay = 0)

\* A wrapper net whose functor is never assigned.
DriverOfUnassigned(delay, ostr0, ostr1) == NullFun

\* obj_drv
DriverOf(delay, ostr0, ostr1) ==
    IF ostr0 = 6 /\ ostr1 = 6 /\ delay # 0
    THEN Fun("vvp_fun_delay", "", 0, FALSE, FALSE, delay, 0)
    ELSE Fun("vvp_fun_drive", "", 0, FALSE, FALSE, ostr0, ostr1)

\* vvp_net_ptr_t: a net and a port; net 0 is the null pointer.
NullEdge == [net |-> 0, port |-> 0]
Edge(net, port) == [net |-> net, port |-> port]

\* inputs_connect: the net each reference resolves to, 0 when the symbol
\* table does not hold the label.
InputsConnect(tab, argv) == [i \in 1..Len(argv) |-> tab[argv[i]]]

\* define_functor_symbol
DefineFunctorSymbol(tab, label, net) == [tab EXCEPT ![label] = net]

\* compile_functor
CompileFunctor(label, type, width, delay, ostr0, ostr1, argv) ==
    /\ ~aborted
    /\ label \in labels
    /\ labels' = labels \ {label}
    /\ LET argc == Len(argv)
           obj == FunctorOf(type, width, ostr0, ostr1)
           net == Len(nets) + 1
           net_drv == net + 1
       IN IF ~KnownType(type)
          THEN /\ errors' = errors + 1
               /\ last' = [label |-> label, type |-> type, delay |-> delay,
                           ostr0 |-> ostr0, ostr1 |-> ostr1, argc |-> argc,
                           gate |-> 0]
               /\ UNCHANGED <<nets, nobj, symtab, aborted>>
          ELSE IF ~(argc <= 4)
          THEN /\ aborted' = TRUE
               /\ nobj' = nobj + 1
               /\ last' = [label |-> label, type |-> type, delay |-> delay,
                           ostr0 |-> ostr0, ostr1 |-> ostr1, argc |-> argc,
                           gate |-> 0]
               /\ UNCHANGED <<nets, symtab, errors>>
          ELSE /\ last' = [label |-> label, type |-> type, delay |-> delay,
                           ostr0 |-> ostr0, ostr1 |-> ostr1, argc |-> argc,
                           gate |-> net]
               /\ IF OwnNet(type, delay, ostr0, ostr1)
                  THEN /\ nets' = Append(nets,
                                     [fun |-> obj, out |-> NullEdge,
                                      ins |-> InputsConnect(symtab, argv)])
                       /\ nobj' = nobj + 1
                       /\ symtab' = DefineFunctorSymbol(symtab, label, net)
                  ELSE /\ nets' = nets \o
                                   <<[fun |-> obj, out |-> Edge(net_drv, 0),
                                      ins |-> InputsConnect(symtab, argv)],
                                     [fun |-> DriverOf(delay, ostr0, ostr1),
                                      out |-> NullEdge, ins |-> << >>]>>
                       /\ nobj' = nobj + 2
                       /\ symtab' = DefineFunctorSymbol(symtab, label, net_drv)
               /\ UNCHANGED <<errors, aborted>>
    /\ UNCHANGED <<gateVars, tableVars, muxVars, obsVars, kind>>

CompileInit ==
    /\ nets = << >>
    /\ nobj = 0
    /\ symtab = [l \in Labels |-> 0]
    /\ errors = 0
    /\ labels = Labels
    /\ last = [label |-> "", type |-> "", delay |-> 0, ostr0 |-> 6,
               ostr1 |-> 6, argc |-> 0, gate |-> 0]
    /\ NoGate
    /\ NoTable
    /\ NoMux
    /\ Fresh
    /\ kind = "loader"

CompileNext ==
    \E label \in labels, type \in Tags \cup UnknownTags, width \in {1},
       delay \in Delays, ostr0 \in Strengths, ostr1 \in Strengths,
       argv \in ArgLists :
        CompileFunctor(label, type, width, delay, ostr0, ostr1, argv)

SpecCompile == CompileInit /\ [][CompileNext]_vars

\* ------------------------------------------------------- any functor
\* One net with one of the functors above attached, chosen at construction;
\* the receives it gets are those of its class.
FunctorsInit == AndInit \/ TabInit \/ BufInit \/ MuxzInit \/ MuxrInit

FunctorsNext ==
    \/ kind = "and" /\ AndNext
    \/ kind = "table" /\ TabNext
    \/ kind = "buf" /\ BufNext
    \/ kind = "muxz" /\ MuxzNext
    \/ kind = "muxr" /\ MuxrNext

SpecFunctors == FunctorsInit /\ [][FunctorsNext]_vars

\* ================================================================ claims

\* ---- C1
AndHasZero(i) == \E p \in Ports : i <= Len(input_[p]) /\ input_[p][i] = "0"
AndHasUnknown(i) ==
    \E p \in Ports : i <= Len(input_[p]) /\ input_[p][i] \in {"X", "Z"}

\* C1: every bit of the vector run_run sends is 0 when some latched input
\* has 0 at that bit, whatever the other inputs are and however narrow they
\* are; otherwise it is X when some latched input has X or Z at that bit.
C1_AndZeroDominates ==
    op.name = "run" =>
        \A i \in 1..Len(out[1]) :
            /\ AndHasZero(i) => out[1][i] = "0"
            /\ (~AndHasZero(i) /\ AndHasUnknown(i)) => out[1][i] = "X"

\* ---- C2
\* C2: a receive on the AND gate sends nothing: it latches the input and
\* appends one event due at the present time; the fan-out changes only when
\* the scheduler fires the oldest event, and time does not move while an
\* event is pending, so the firing is at the logical time of the receive.
C2_AndDeferred ==
    /\ [][op'.name = "recv" =>
            /\ sent' = 0
            /\ out' = out
            /\ now' = now
            /\ input_' # input_ =>
                 queue' = Append(queue, [fun |-> "and", time |-> now])
            /\ input_' = input_ => queue' = queue]_vars
    /\ [][sent' = 1 =>
            /\ op'.name = "run"
            /\ queue # << >>
            /\ Head(queue).time = now
            /\ now' = now
            /\ out' = Delivered(op'.val)]_vars
    /\ [][now' # now => queue = << >>]_vars

\* A value-changing receive has happened, its event is pending and nothing
\* has reached the fan-out.
C2_Witness ==
    /\ op.name = "recv"
    /\ input_[0] = <<"1">>
    /\ Len(queue) = 1
    /\ out = Nothing

\* ---- C3
\* The output the claim gives for select state sel and latched A and B.
MuxzClaimed(sel, A, B) ==
    CASE sel = 0 -> A
      [] sel = 1 -> B
      [] OTHER ->
           [i \in 1..(IF Len(A) > Len(B) THEN Len(A) ELSE Len(B)) |->
               IF i <= Len(A) /\ i <= Len(B) /\ A[i] = B[i] THEN A[i] ELSE "X"]

\* C3: once a receive on port 0, 1 or 2 of the MUXZ has happened, the last
\* vector sent is A when the last select bit was 0, B when it was 1, and for
\* an X or Z select (or none yet) the bitwise reconciliation of A and B,
\* padded with X to the longer width; a select receive latches its bit.
C3_MuxzOutput ==
    /\ (op.name = "muxz.recv_vec4" /\ op.port \in 0..2 /\ ~aborted) => sent = 1
    /\ (op.name = "muxz.recv_vec4" /\ op.port = 2 /\ ~aborted) =>
          select_ = (CASE op.val[1] = "0" -> 0 [] op.val[1] = "1" -> 1 [] OTHER -> 2)
    /\ (op.name = "muxz.recv_vec4" /\ op.port = 0 /\ ~aborted) => a_ = op.val
    /\ (op.name = "muxz.recv_vec4" /\ op.port = 1 /\ ~aborted) => b_ = op.val
    /\ out # Nothing => out = Delivered(MuxzClaimed(select_, a_, b_))

\* The documented scenario: A=[1,0,1], B=[1,1,1], an unknown select.
C3_Witness ==
    /\ a_ = <<"1", "0", "1">>
    /\ b_ = <<"1", "1", "1">>
    /\ select_ = 2
    /\ op.name = "muxz.recv_vec4"
    /\ out = Delivered(<<"1", "X", "1">>)

\* ---- C4
\* C4: every change on port 0, 1 or 2 of a multiplexer recomputes the output
\* and sends it inside the receive call, whatever the select state.
C4_MuxEveryChangePropagates ==
    [][( \/ /\ op'.name = "muxz.recv_vec4"
            /\ \/ op'.port = 0 /\ op'.val # a_
               \/ op'.port = 1 /\ op'.val # b_
               \/ op'.port = 2 /\ Len(op'.val) = 1
         \/ /\ op'.name = "muxr.recv_real"
            /\ \/ op'.port = 0 /\ op'.val # a_
               \/ op'.port = 1 /\ op'.val # b_
         \/ /\ op'.name = "muxr.recv_vec4"
            /\ op'.port = 2
            /\ Len(op'.val) = 1 )
       => sent' = 1]_vars

\* ---- C5
\* C5: a width-1 select receive on the MUXR sends A for 0, B for 1 and, for
\* X or Z, A when A equals B and 0.0 otherwise; A and B start at 0.0 and are
\* the last reals received on ports 0 and 1; a real receive with a new value
\* on the selected data port sends that value.
C5_MuxrSelect ==
    /\ [](nrecv = 0 /\ op.name = "new" => a_ = 0 /\ b_ = 0)
    /\ []((op.name = "muxr.recv_vec4" /\ op.port = 2 /\ Len(op.val) = 1) =>
            /\ sent = 1
            /\ out = Delivered(CASE op.val[1] = "0" -> a_
                                 [] op.val[1] = "1" -> b_
                                 [] OTHER -> IF a_ = b_ THEN a_ ELSE 0))
    /\ [][a_' # a_ =>
            op'.name = "muxr.recv_real" /\ op'.port = 0 /\ a_' = op'.val]_vars
    /\ [][b_' # b_ =>
            op'.name = "muxr.recv_real" /\ op'.port = 1 /\ b_' = op'.val]_vars
    /\ [][(op'.name = "muxr.recv_real" /\ op'.port = 0 /\ op'.val # a_) =>
            a_' = op'.val]_vars
    /\ [][(op'.name = "muxr.recv_real" /\ op'.port = 1 /\ op'.val # b_) =>
            b_' = op'.val]_vars
    /\ [][( /\ op'.name = "muxr.recv_real"
            /\ \/ op'.port = 0 /\ select_ = 0 /\ op'.val # a_
               \/ op'.port = 1 /\ select_ = 1 /\ op'.val # b_ )
          => sent' = 1 /\ out' = Delivered(op'.val)]_vars

\* An unknown select arrives while A and B are both 1.0: 1.0 is sent.
C5_Witness ==
    /\ op.name = "muxr.recv_vec4"
    /\ op.port = 2
    /\ op.val = <<"X">>
    /\ a_ = 1
    /\ b_ = 1
    /\ out = Delivered(1)

\* ---- C6
\* The code the claim gives port q at bit i: absent or narrow ports count
\* as X.
ClaimedCode(q, i) ==
    IF i <= Len(input_[q]) THEN Code(input_[q][i]) ELSE Code("X")

ClaimedIndex(i) ==
    ClaimedCode(0, i) + 4 * ClaimedCode(1, i) + 16 * ClaimedCode(2, i)
      + 64 * ClaimedCode(3, i)

\* C6: a table receive latches the value on its port, computes for every bit
\* the index sum of code(q)*4^q with X for ports never received or narrower
\* than the bit, sends the table entries of these indices in the same call.
C6_TableLookup ==
    op.name = "tab.recv_vec4" =>
        /\ input_[op.port] = op.val
        /\ sent = 1
        /\ Len(lookups) = Len(op.val)
        /\ \A i \in 1..Len(lookups) :
              /\ lookups[i] \in 0..255
              /\ lookups[i] = ClaimedIndex(i)
        /\ out = Delivered([i \in 1..Len(lookups) |->
                              Decode(TruthEntry(table, lookups[i]))])

\* ---- C7
\* C7: a vector receive on port 0 of BUF sends, in the same call, a vector
\* of the same width with every Z replaced by X and the other bits kept;
\* BUFZ sends the vector as it is, and a real received on port 0 of BUFZ is
\* sent on unchanged.
C7_Buffers ==
    /\ (op.name = "buf.recv_vec4" /\ op.port = 0) =>
          /\ sent = 1
          /\ Len(out[1]) = Len(op.val)
          /\ \A i \in 1..Len(op.val) :
                out[1][i] = (IF op.val[i] = "Z" THEN "X" ELSE op.val[i])
    /\ (op.name = "bufz.recv_vec4" /\ op.port = 0) =>
          sent = 1 /\ out = Delivered(op.val)
    /\ (op.name = "bufz.recv_real" /\ op.port = 0) =>
          sent = 1 /\ out = Delivered(op.val)

\* BUF has received a vector with a floating bit.
C7_Witness ==
    /\ op.name = "buf.recv_vec4"
    /\ op.port = 0
    /\ op.val = <<"Z", "1">>
    /\ out = Delivered(<<"X", "1">>)

\* ---- C8
\* The classes of the nets the last call put behind its gate net.
WrapperClasses == {nets[k].fun.class : k \in (last.gate + 1)..Len(nets)}

\* C8: a call that builds an element inserts a drive-strength resolver
\* behind the gate whenever a strength is not 6 and a delay wrapper whenever
\* a delay is given, for every tag; the gate's own net is published only when
\* both strengths are 6 and no delay is given.
C8_WrappersInserted ==
    last.gate # 0 =>
        /\ (last.ostr0 # 6 \/ last.ostr1 # 6) =>
              "vvp_fun_drive" \in WrapperClasses
        /\ last.delay # 0 => "vvp_fun_delay" \in WrapperClasses
        /\ symtab[last.label] = last.gate <=>
              (last.ostr0 = 6 /\ last.ostr1 = 6 /\ last.delay = 0)

\* ---- C9
\* C9: a call with a type string outside the accepted set reports one error
\* and changes nothing else: no functor, no net, no connection, no symbol;
\* the process lives on and the next call with an accepted type and at most
\* four inputs builds and publishes its element.
C9_UnknownTag ==
    /\ [][(labels' # labels /\ last'.type \notin Tags) =>
            /\ errors' = errors + 1
            /\ nets' = nets
            /\ nobj' = nobj
            /\ symtab' = symtab
            /\ aborted' = FALSE]_vars
    /\ [][(labels' # labels /\ errors > 0 /\ last.type \notin Tags
             /\ last'.type \in Tags /\ last'.argc <= 4) =>
            /\ Len(nets') > Len(nets)
            /\ symtab'[last'.label] \in (Len(nets) + 1)..Len(nets')
            /\ \A k \in 1..Len(nets') : nets'[k].fun.class # "null"
            /\ errors' = errors]_vars

\* An element was built right after a call with an unknown type failed.
C9_Witness ==
    /\ errors = 1
    /\ last.type = "AND"
    /\ Len(nets) = 1
    /\ symtab[last.label] = 1

\* ---- C10
\* C10: a call with more than four input references reports an error and
\* gives up that element only: the process is not terminated and the label
\* is not published.
C10_TooManyInputs ==
    [][(labels' # labels /\ last'.type \in Tags /\ last'.argc > 4) =>
         /\ aborted' = FALSE
         /\ errors' = errors + 1
         /\ symtab' = symtab]_vars

\* ---- C11
\* C11: a call whose argument list holds a reference the symbol table does
\* not resolve (inputs_connect finds no net for it) fails the element: the
\* label of that call is not published.
C11_UnresolvedNotPublished ==
    [][( /\ labels' # labels
         /\ last'.gate # 0
         /\ \E i \in 1..last'.argc : nets'[last'.gate].ins[i] = 0 )
       => symtab'[last'.label] = 0]_vars

\* ---- C12
\* C12: a receive on a port outside the functor's arity never returns
\* normally: a vector on port 1..3 of BUF or BUFZ, a real on port 1..3 of
\* BUFZ, a vector on port 3 of MUXZ, a vector on a port other than 2 of MUXR
\* and a real on port 2 or 3 of MUXR all end the process.
C12_OutOfArityAborts ==
    [][( \/ /\ op'.name \in {"buf.recv_vec4", "bufz.recv_vec4", "bufz.recv_real"}
            /\ op'.port \in 1..3
         \/ op'.name = "muxz.recv_vec4" /\ op'.port = 3
         \/ op'.name = "muxr.recv_vec4" /\ op'.port # 2
         \/ op'.name = "muxr.recv_real" /\ op'.port \in 2..3 )
       => aborted']_vars

\* ---- C13
\* C13: a vector whose width is not 1 received on port 2 of a MUXZ or a MUXR
\* ends the process: that receive sends nothing, leaves the fan-out and the
\* latched state as they were, and no operation follows it.
C13_SelectWidthAborts ==
    /\ [][( /\ op'.name \in {"muxz.recv_vec4", "muxr.recv_vec4"}
            /\ op'.port = 2
            /\ Len(op'.val) # 1 )
          => /\ aborted'
             /\ sent' = 0
             /\ out' = out
             /\ <<a_, b_, select_>>' = <<a_, b_, select_>>]_vars
    /\ [][~aborted]_vars

\* A MUXZ that had propagated a value got a two-bit select and is gone.
C13_Witness ==
    /\ aborted
    /\ op.name = "muxz.recv_vec4"
    /\ op.port = 2
    /\ op.val = <<"1", "0">>
    /\ out # Nothing
    /\ select_ = 0

\* ---- C14
\* C14: every allocated net has a functor, set when the net is allocated and
\* never again; a call with an accepted type and at most four inputs
\* publishes its label, which was not published before and is not rebound
\* after, bound to the last net of the element: the wrapper net, fed by the
\* gate net's output edge at port 0, when a resolver or delay wrapper was
\* inserted, and the gate net otherwise.
C14_NetsAndPublication ==
    /\ [](\A k \in 1..Len(nets) : nets[k].fun # NullFun)
    /\ [][ /\ Len(nets') >= Len(nets)
           /\ \A k \in 1..Len(nets) : nets'[k].fun = nets[k].fun ]_vars
    /\ [][\A l \in Labels : symtab[l] # 0 => symtab'[l] = symtab[l]]_vars
    /\ [][(labels' # labels /\ last'.type \in Tags /\ last'.argc <= 4) =>
            LET g == last'.gate
                l == last'.label
            IN /\ g = Len(nets) + 1
               /\ symtab[l] = 0
               /\ \A m \in Labels \ {l} : symtab'[m] = symtab[m]
               /\ \/ /\ Len(nets') = g
                     /\ symtab'[l] = g
                     /\ nets'[g].out = NullEdge
                  \/ /\ Len(nets') = g + 1
                     /\ nets'[g + 1].fun.class \in {"vvp_fun_drive", "vvp_fun_delay"}
                     /\ nets'[g].out = Edge(g + 1, 0)
                     /\ nets'[g + 1].out = NullEdge
                     /\ symtab'[l] = g + 1 ]_vars

\* A gate with a delay wrapper behind it, published as the wrapper net.
C14_Witness ==
    /\ Len(nets) = 2
    /\ last.gate = 1
    /\ nets[1].fun.class = "vvp_fun_and"
    /\ nets[1].out = Edge(2, 0)
    /\ nets[2].fun.class = "vvp_fun_delay"
    /\ symtab[last.label] = 2

\* ---- C15
\* C15: a functor whose new output equals the output it last propagated
\* does not propagate again: every send delivers to the fan-out a value
\* different from the one the fan-out already holds.
C15_RedundantSuppressed ==
    [][(out # Nothing /\ sent' = 1) => out' # out]_vars

\* ---- C16
\* C16: the latches of an AND gate are all-X of the constructed width before
\* the first receive; a receive of a vector equal to the one latched for its
\* port changes no latch and adds no event; any other receive replaces the
\* latch of its port only and appends exactly one event due at the present
\* time; a firing removes exactly one event and nothing else touches the
\* queue, so pending plus fired events count the value-changing receives.
C16_AndChangeDetection ==
    /\ [](op.name = "new" =>
            queue = << >> /\ \A p \in Ports : input_[p] = <<"X">>)
    /\ [][op'.name = "recv" =>
            IF op'.val = input_[op'.port]
            THEN input_' = input_ /\ queue' = queue /\ out' = out
            ELSE /\ input_'[op'.port] = op'.val
                 /\ \A q \in Ports \ {op'.port} : input_'[q] = input_[q]
                 /\ Len(queue') = Len(queue) + 1
                 /\ queue' = Append(queue, [fun |-> "and", time |-> now])
                 /\ out' = out ]_vars
    /\ [][op'.name = "run" => queue' = Tail(queue) /\ input_' = input_]_vars
    /\ [][op'.name = "tick" => queue' = queue /\ input_' = input_]_vars

\* A changing receive on port 0 and then a receive of the X that port 1
\* holds since construction: one event is pending, not two.
C16_Witness ==
    /\ op = [name |-> "recv", port |-> 1, val |-> <<"X">>]
    /\ nrecv = 2
    /\ input_[0] = <<"1">>
    /\ input_[1] = <<"X">>
    /\ Len(queue) = 1

\* ---- C17
\* C17: a vector receive at port p of a table functor or an AND gate changes
\* at most the latch of port p; on a MUXZ port 0 changes at most A, port 1 at
\* most B, port 2 at most the select state; a vector receive on a MUXR never
\* changes A or B and a real receive never changes the select state; a MUXZ
\* receive at port 3 and a BUF or BUFZ receive at a port other than 0 change
\* nothing and send nothing.
C17_ReceiveFrame ==
    /\ [][op'.name \in {"tab.recv_vec4", "recv"} =>
            \A q \in Ports \ {op'.port} : input_'[q] = input_[q]]_vars
    /\ [][op'.name = "muxz.recv_vec4" =>
            /\ op'.port # 0 => a_' = a_
            /\ op'.port # 1 => b_' = b_
            /\ op'.port # 2 => select_' = select_
            /\ op'.port = 3 => sent' = 0 /\ out' = out /\ ~aborted']_vars
    /\ [][op'.name = "muxr.recv_vec4" => a_' = a_ /\ b_' = b_]_vars
    /\ [][op'.name = "muxr.recv_real" => select_' = select_]_vars
    /\ [][( /\ op'.name \in {"buf.recv_vec4", "bufz.recv_vec4", "bufz.recv_real"}
            /\ op'.port # 0 )
          => sent' = 0 /\ out' = out /\ ~aborted']_vars

\* A MUXZ holding a two-bit A and a selected B got a vector on port 3: the
\* latches and the fan-out are as the receive on port 1 left them.
C17_Witness ==
    /\ op = [name |-> "muxz.recv_vec4", port |-> 3, val |-> <<"0">>]
    /\ a_ = <<"1", "0">>
    /\ b_ = <<"Z">>
    /\ select_ = 1
    /\ out = Delivered(<<"Z">>)
    /\ sent = 0

\* ---- C18
\* The AND of four latches as run_run computes it, bit by bit: X when a
\* latch on ports 1..3 is more than one bit short of the position, else 0
\* when some latch has 0 there, 1 when all have 1, X otherwise.
LatchedAnd(inp) ==
    [i \in 1..Len(inp[0]) |->
        IF \E p \in 1..3 : Len(inp[p]) < i - 1 THEN "X"
        ELSE LET bits == {inp[0][i]} \cup {Value(inp[p], i - 1) : p \in 1..3}
             IN IF "0" \in bits THEN "0"
                ELSE IF bits = {"1"} THEN "1"
                ELSE "X"]

\* C18: a value-changing receive that arrives while events of the gate are
\* pending adds its own event, so k receives before the first firing leave k
\* events; every firing sends the AND of the inputs latched when it fires,
\* which include the vector of the receive just before it, and firings that
\* follow each other send the same vector.
C18_AndEvaluatesAtFiring ==
    /\ [][(op'.name = "recv" /\ queue # << >> /\ input_' # input_) =>
            Len(queue') = Len(queue) + 1]_vars
    /\ [][op'.name = "run" =>
            /\ Len(queue') = Len(queue) - 1
            /\ sent' = 1
            /\ out' = Delivered(LatchedAnd(input_))]_vars
    /\ [][(op.name = "recv" /\ op'.name = "run") =>
            out' = Delivered(LatchedAnd([input_ EXCEPT ![op.port] = op.val]))]_vars
    /\ [][(op.name = "run" /\ op'.name = "run") => out' = out]_vars

\* Two receives came before any firing; the first of the two firings has
\* sent the AND of the final latches (0, where the first receive alone
\* gives X) and the second is pending.
C18_Witness ==
    /\ op.name = "run"
    /\ nrecv = 2
    /\ now = 0
    /\ Len(queue) = 1
    /\ input_[0] = <<"1">>
    /\ input_[1] = <<"0">>
    /\ out = Delivered(<<"0">>)

\* ---- C19
\* C19: with the output of the AND gate wired back to one of its ports 1..3,
\* the firings that follow an external receive on another port come to an
\* end: whenever an event of the gate is pending, a state with no pending
\* event follows, the delivery to the gate's own port having stopped
\* changing its latch, and logical time then advances to its end.
C19_FeedbackConverges ==
    /\ (queue # << >>) ~> (queue = << >> /\ out = Delivered(input_[fb[1]]))
    /\ <>(now = MaxTime)

\* The fed-back port took the gate's output (0, after the X it was built
\* with) and the firing that found it unchanged left the queue empty.
C19_Witness ==
    /\ fb = <<1>>
    /\ nrecv = 1
    /\ op.name = "run"
    /\ input_[0] = <<"0">>
    /\ input_[1] = <<"0">>
    /\ out = Delivered(<<"0">>)
    /\ queue = << >>

\* ---- C20
\* C20: the four latches of an AND gate are all-X of the constructed width
\* at construction and a latch changes only by a receive on its own port, so
\* a port that never received stays all-X; every bit of a vector the gate
\* sends is 1 only if all four ports hold a latched 1 at that bit, so a gate
\* with a port that never received sends no 1 bit.
C20_AndUnreceivedStayX ==
    /\ [](op.name = "new" => \A p \in Ports : input_[p] = <<"X">>)
    /\ [][\A p \in Ports :
            input_'[p] # input_[p] =>
                op'.name = "recv" /\ op'.port = p /\ input_'[p] = op'.val]_vars
    /\ [](op.name = "run" =>
            \A i \in 1..Len(out[1]) :
                out[1][i] = "1" =>
                    \A p \in Ports : i <= Len(input_[p]) /\ input_[p][i] = "1")

\* All four ports have received a 1 and the gate has sent 1.
C20_Witness ==
    /\ op.name = "run"
    /\ nrecv = 4
    /\ \A p \in Ports : input_[p] = <<"1">>
    /\ out = Delivered(<<"1">>)

\* ---- C21
\* A latch cut down to its first n bits.
Cut(v, n) == [i \in 1..(IF Len(v) < n THEN Len(v) ELSE n) |-> v[i]]

\* C21: the vector a table functor sends on a receive has the width of the
\* vector just received, whatever the widths latched on the other ports, and
\* is the same as if every latch were cut to that width: no bit of a wider
\* latch beyond it is looked at; the vector an AND gate sends has the width
\* of the vector latched on port 0.
C21_OutputWidths ==
    /\ op.name = "tab.recv_vec4" =>
          /\ sent = 1
          /\ Len(out[1]) = Len(op.val)
          /\ Len(lookups) = Len(op.val)
          /\ LET cut == [q \in Ports |-> Cut(input_[q], Len(op.val))]
             IN \A i \in 1..Len(op.val) :
                   out[1][i] = Decode(TruthEntry(table, Lookup(cut, i - 1)))
    /\ op.name = "run" => Len(out[1]) = Len(input_[0])

\* A one-bit vector arrived on port 1 of a table functor whose port 0 holds
\* two bits: one bit is sent.
C21_Witness ==
    /\ op = [name |-> "tab.recv_vec4", port |-> 1, val |-> <<"1">>]
    /\ input_[0] = <<"0", "1">>
    /\ Len(out[1]) = 1

====
